---- MODULE Spec2Model ----
(***************************************************************************)
(* SimpleWebChatChannel (nanobot/channels/simple_web_chat.py): the session *)
(* registry (_connections), the per-session outbound queues (_queues), the *)
(* websocket endpoint with its drain task and receive loop, the inbound    *)
(* frame handler (_on_ws_message), send(), and the upload directory with   *)
(* the upload and download endpoints.                                      *)
(*                                                                         *)
(* The code runs as asyncio tasks on one event loop, so a task is only     *)
(* interleaved with the others at an await that really suspends.  Every    *)
(* action below is one such uninterrupted stretch of one task:             *)
(*   Accept       ws_endpoint from the return of accept() to the first     *)
(*                receive_text()                                           *)
(*   DrainGet     _drain: q.get() returning a payload                      *)
(*   DrainSend    _drain: the end of websocket.send_text(payload)          *)
(*   OnWsMessage  receive_text() returning a frame, _on_ws_message up to   *)
(*                the acknowledgement's send_text (or to its end)          *)
(*   AckSend      the end of the acknowledgement's send_text, the rest of  *)
(*                _on_ws_message                                           *)
(*   PeerGone     the client or the network ends the transport             *)
(*   Teardown     receive_text() raising, the except and finally clauses   *)
(*   SendCall     send() up to its direct send_text (or to its end)        *)
(*   SendWrite    the end of the direct send_text, the rest of send()      *)
(*   Upload       the upload endpoint, after file.read()                   *)
(*   ServeUploadedFile  the download endpoint                              *)
(* A send_text puts its frame on the transport when it is called and may   *)
(* return later (flow control), so the writes on one websocket end in the  *)
(* order they were started: inflight keeps that order.                     *)
(***************************************************************************)
EXTENDS Integers, Sequences, FiniteSets, TLC

\* ---------------------------------------------------------------- bounds
\* The inputs of a run: connections accepted, send() calls and frames received.
MaxEvents == 4

Sessions == {"s1", "s2"}
Handles == 1..MaxEvents
SendIds == 1..MaxEvents

NoConn == 0
NoItem == [type |-> "none"]
NoSession == "<none>"

\* A value read from a JSON object: the key is absent, or the value is a
\* string or list (val), or it is of some other type.
Absent == [kind |-> "absent", val |-> <<>>]
Str(chars) == [kind |-> "str", val |-> chars]
List(items) == [kind |-> "list", val |-> items]
Other == [kind |-> "other", val |-> <<>>]

\* ------------------------------------------------------- media references
\* A reference is the string prefix ++ dir ++ name, split at the places the
\* code looks at: the prefixes it tests with startswith, and the last path
\* component (Path.name).
UploadsPrefix == "/uploads/"
UploadDir == "~/.nanobot/media/"

UploadsUrl == [prefix |-> UploadsPrefix, dir |-> "", name |-> "a.png"]
HttpUrl == [prefix |-> "https://", dir |-> "cdn/", name |-> "b.png"]
PlainHttpUrl == [prefix |-> "http://", dir |-> "cdn/", name |-> "c.zip"]

\* the empty string
EmptyRef == [prefix |-> "", dir |-> "", name |-> ""]

\* local paths: two regular files of the same name in two directories, a path
\* that does not exist, a directory, and a file in the upload directory
LocalA == [prefix |-> "", dir |-> "/tmp/x/", name |-> "photo.png"]
LocalB == [prefix |-> "", dir |-> "/tmp/y/", name |-> "photo.png"]
LocalPdf == [prefix |-> "", dir |-> "/tmp/x/", name |-> "doc.pdf"]
MissingPath == [prefix |-> "", dir |-> "/tmp/x/", name |-> "gone.zip"]
DirPath == [prefix |-> "", dir |-> "/tmp/", name |-> "x"]
InUploadDir == [prefix |-> "", dir |-> UploadDir, name |-> "photo.png"]

\* the bytes of a file or of a request body, and their number
Data(bytes, len) == [bytes |-> bytes, len |-> len]

\* /uploads/<name>, lines 781 and 944
ServedUrl(name) == [prefix |-> UploadsPrefix, dir |-> "", name |-> name]

\* a resolution that hands the URL on as it came
InboundResolveKeepsUrl(url) == url

\* _on_ws_message, lines 873-879: one entry of resolved_media
InboundResolve(url) ==
    IF url.prefix = UploadsPrefix
    THEN [prefix |-> "", dir |-> UploadDir, name |-> url.dir \o url.name]
    ELSE url

RECURSIVE MapInbound(_)
MapInbound(media) ==
    IF media = <<>> THEN <<>>
    ELSE <<InboundResolve(Head(media))>> \o MapInbound(Tail(media))

\* ------------------------------------------------------------ text content
\* str.strip() on a string given as a sequence of characters
RECURSIVE LStrip(_)
LStrip(s) == IF s # <<>> /\ Head(s) = " " THEN LStrip(Tail(s)) ELSE s

RECURSIVE RStrip(_)
RStrip(s) ==
    IF s # <<>> /\ s[Len(s)] = " " THEN RStrip(SubSeq(s, 1, Len(s) - 1)) ELSE s

Strip(s) == RStrip(LStrip(s))

\* ------------------------------------------------------------------ frames
\* What json.loads makes of the raw text of an inbound frame.
Frame(j, t, c, m) == [json |-> j, type |-> t, content |-> c, media |-> m]

Frames ==
    { Frame("invalid", Absent, Absent, Absent),
      Frame("nonobject", Absent, Absent, Absent),
      Frame("object", Str("message"), Str(<<" ", "h", "i">>), List(<<UploadsUrl, HttpUrl>>)),
      Frame("object", Str("message"), Other, Absent),
      Frame("object", Str("ping"), Str(<<" ", "h", "i">>), Absent),
      Frame("object", Absent, Absent, Absent) }

NoFrame == Frame("none", Absent, Absent, Absent)

\* data.get("type", "message"), line 857
MsgType(f) == IF f.type = Absent THEN Str("message") ELSE f.type

\* (data.get("content") or "").strip(), line 861
Content(f) == IF f.content = Absent THEN <<>> ELSE Strip(f.content.val)

\* data.get("media") or [], line 862
Media(f) == IF f.media = Absent THEN <<>> ELSE f.media.val

\* a handler without the type test
ReturnsNoTypeTest(f) == f.json = "invalid"

\* json.loads raising (lines 852-855), or the type test (lines 857-859)
Returns(f) == f.json = "invalid" \/ (f.json = "object" /\ MsgType(f) # Str("message"))

\* data.get on a value that is no dict (line 857), .strip() on a value that
\* is no string (line 861): AttributeError, raised out of _on_ws_message
Raises(f) ==
    \/ f.json = "nonobject"
    \/ f.json = "object" /\ MsgType(f) = Str("message") /\ f.content.kind = "other"

\* --------------------------------------------------------------- variables
VARIABLES
    connections,  \* _connections: a function from its keys (session ids) to handles
    queues,       \* _queues: a function from its keys to the asyncio.Queue's items
    pc,           \* per handle: where its ws_endpoint task is
    wsSession,    \* per handle: the session_id of its ws_endpoint call
    peerGone,     \* per handle: the transport has ended (writes and reads raise)
    drain,        \* per handle: where its drain task is
    drainItem,    \* per handle: the payload its drain task took and is writing
    ackTo,        \* per handle: ws of the acknowledgement being written
    pending,      \* per handle: the frame _on_ws_message is handling
    inflight,     \* per handle: the send_text calls on it that have not ended
    sendPc,       \* per send() call: where it is
    sendWs,       \* per send() call: its local ws
    sendChat,     \* per send() call: msg.chat_id
    sendMsgMedia, \* per send() call: msg.media
    sendMedia,    \* per send() call: media_urls
    uploadRoot,   \* the files of the upload directory: a function from their
                  \*   names to their bytes
    resp,         \* the response to the last HTTP request
    wire,         \* history, per handle: the message frames written to it
    acked,        \* history, per handle: the number of reaction frames written to it
    bus,          \* history: the messages handed to _handle_message
    backlog,      \* history, per open handle: the queue it found when accepted,
                  \*   if the session had no other connection then
    lastRx,       \* history: the frame received last
    enqClosed,    \* history, per send() call: the connections of its session
                  \*   that were torn down when its payload was queued
    stored,       \* history, per name N: the writes to the upload directory
                  \*   that were answered with the URL /uploads/N, oldest first
    nev           \* history: the number of inputs taken so far

vars == <<connections, queues, pc, wsSession, peerGone, drain, drainItem,
          ackTo, pending, inflight, sendPc, sendWs, sendChat, sendMsgMedia,
          sendMedia, uploadRoot, resp, wire, acked, bus, backlog, lastRx,
          enqClosed, stored, nev>>

\* what the steps of one task leave alone
endpointVars == <<pc, wsSession, drain, drainItem, ackTo, pending>>
sendVars == <<sendPc, sendWs, sendChat, sendMsgMedia, sendMedia>>
rxVars == <<bus, lastRx>>
queuedVars == <<enqClosed>>
httpVars == <<resp>>
fileVars == <<uploadRoot, stored>>

\* the response to an HTTP request
Response(status, body, mime, disposition, url, name) ==
    [status |-> status, body |-> body, mime |-> mime,
     disposition |-> disposition, url |-> url, name |-> name]

NoData == Data("", 0)
NoMime == [prefix |-> "", rest |-> ""]
NoResponse == Response(0, NoData, NoMime, "", EmptyRef, "")

\* the payload of the k-th call of send(), lines 951-954: the calls carry
\* distinct contents (k)
Payload(k, s, m) == [type |-> "message", id |-> k, chat |-> s, media |-> m]

\* a frame on the wire, with the task that wrote it
Written(p, via) == [payload |-> p, via |-> via]

\* one more input is taken, within the bound
TakeInput == nev < MaxEvents /\ nev' = nev + 1

\* a websocket on which send_text succeeds
Writable(h) == ~peerGone[h] /\ pc[h] # "closed"

\* send_text is called on websocket h by writer w
StartWrite(h, w) == inflight' = [inflight EXCEPT ![h] = Append(@, w)]

\* the send_text of writer w on websocket h is the next one to end
CanEnd(h, w) == inflight[h] # <<>> /\ Head(inflight[h]) = w

EndWrite(h) == inflight' = [inflight EXCEPT ![h] = Tail(@)]

Init ==
    /\ connections = <<>>
    /\ queues = <<>>
    /\ pc = [h \in Handles |-> "new"]
    /\ wsSession = [h \in Handles |-> NoSession]
    /\ peerGone = [h \in Handles |-> FALSE]
    /\ drain = [h \in Handles |-> "none"]
    /\ drainItem = [h \in Handles |-> NoItem]
    /\ ackTo = [h \in Handles |-> NoConn]
    /\ pending = [h \in Handles |-> NoFrame]
    /\ inflight = [h \in Handles |-> <<>>]
    /\ sendPc = [k \in SendIds |-> "idle"]
    /\ sendWs = [k \in SendIds |-> NoConn]
    /\ sendChat = [k \in SendIds |-> NoSession]
    /\ sendMsgMedia = [k \in SendIds |-> <<>>]
    /\ sendMedia = [k \in SendIds |-> <<>>]
    /\ uploadRoot = <<>>
    /\ resp = NoResponse
    /\ stored = <<>>
    /\ enqClosed = [k \in SendIds |-> {}]
    /\ wire = [h \in Handles |-> <<>>]
    /\ acked = [h \in Handles |-> 0]
    /\ bus = <<>>
    /\ backlog = [h \in Handles |-> <<>>]
    /\ lastRx = NoFrame
    /\ nev = 0

\* ------------------------------------------------------------------ dicts
\* d[key] = value
DictSet(d, key, value) ==
    [x \in DOMAIN d \cup {key} |-> IF x = key THEN value ELSE d[x]]

\* d.pop(key, None)
DictPop(d, key) == [x \in DOMAIN d \ {key} |-> d[x]]

\* d.get(key), with NoConn for None
DictGet(d, key) == IF key \in DOMAIN d THEN d[key] ELSE NoConn

\* the items of a session's queue, none when it has no queue
Queued(s) == IF s \in DOMAIN queues THEN queues[s] ELSE <<>>

\* session s has no connection: no ws_endpoint call for it is running
NoConnection(s) == \A g \in Handles : wsSession[g] = s => pc[g] = "closed"

\* ------------------------------------------------------------ file system
\* config.max_upload_size_mb and max_bytes, lines 706 and 758-759
MaxUploadSizeMb == 50
MaxBytes == MaxUploadSizeMb * 1024 * 1024

\* the files outside the upload directory, with their bytes
LocalFiles == {LocalA, LocalB, LocalPdf}
LocalBytes(path) ==
    IF path = LocalA THEN Data("A", 3)
    ELSE IF path = LocalB THEN Data("B", 4)
    ELSE Data("%PDF", 5)

\* what is at a path: a regular file, a directory or nothing.  A path in the
\* upload directory names one of its files.
PathKind(root, path) ==
    IF path.dir = UploadDir
    THEN (IF path.name \in DOMAIN root THEN "file" ELSE "missing")
    ELSE IF path \in LocalFiles THEN "file"
    ELSE IF path = DirPath THEN "dir"
    ELSE "missing"

\* the bytes of the regular file at a path
FileBytes(root, path) ==
    IF path.dir = UploadDir THEN root[path.name] ELSE LocalBytes(path)

\* a size test that also rejects a body of exactly the limit
TooLargeInclusive(data) == data.len >= MaxBytes

\* len(data) > max_bytes, line 772
TooLarge(data) == data.len > MaxBytes

\* a write that keeps a file already stored under the name
WriteBytesKeepExisting(root, fname, data) ==
    IF fname \in DOMAIN root THEN root ELSE DictSet(root, fname, data)

\* dest.write_bytes(data), lines 774-778 (and the file copy2 leaves, line 942)
WriteBytes(root, fname, data) == DictSet(root, fname, data)

\* one more write under a name, in the history of the writes
Stored(st, fname, by, src) ==
    DictSet(st, fname,
            Append(IF fname \in DOMAIN st THEN st[fname] ELSE <<>>,
                   [by |-> by, src |-> src]))

\* ------------------------------------------------------------------ upload
\* lines 769-781
Upload(fname, data) ==
    /\ TakeInput
    /\ IF TooLarge(data)
       THEN /\ resp' = Response(413, NoData, NoMime, "", EmptyRef, "")
            /\ UNCHANGED fileVars
       ELSE /\ uploadRoot' = WriteBytes(uploadRoot, fname, data)
            /\ stored' = Stored(stored, fname, "upload", EmptyRef)
            /\ resp' = Response(200, NoData, NoMime, "", ServedUrl(fname), fname)
    /\ UNCHANGED <<connections, queues, peerGone, inflight, wire, acked, backlog>>
    /\ UNCHANGED <<endpointVars, sendVars, rxVars, queuedVars>>

\* ----------------------------------------------------- serve_uploaded_file
\* A MIME type is the string major ++ rest, split after the "/".
Mime(major, rest) == [prefix |-> major, rest |-> rest]
OctetStream == Mime("application/", "octet-stream")

\* mimetypes.guess_type, line 804: the type of the extension, NoMime for None
GuessType(fname) ==
    CASE fname = "photo.png" -> Mime("image/", "png")
      [] fname = "archive.zip" -> Mime("application/", "zip")
      [] fname = "page.html" -> Mime("text/", "html")
      [] fname = "doc.pdf" -> Mime("application/", "pdf")
      [] fname = "notes.txt" -> Mime("text/", "plain")
      [] OTHER -> NoMime

\* mime or "application/octet-stream", line 805
MimeOrDefault(mime) == IF mime = NoMime THEN OctetStream ELSE mime

\* _INLINE_MIME_PREFIXES, lines 784-785
InlineMimePrefixes ==
    {Mime("image/", ""), Mime("video/", ""), Mime("audio/", ""),
     Mime("text/", "html"), Mime("application/", "pdf")}

\* mime.startswith(p) for the prefixes above: a prefix that ends with the "/"
\* is tested against the major part, a whole type against both parts
StartsWith(mime, p) ==
    mime.prefix = p.prefix /\ (p.rest = "" \/ mime.rest = p.rest)

\* a classification that forgets PDF
InlineNoPdf(mime) ==
    \E p \in InlineMimePrefixes \ {Mime("application/", "pdf")} : StartsWith(mime, p)

\* line 808
Inline(mime) == \E p \in InlineMimePrefixes : StartsWith(mime, p)

\* lines 797-810: the response for a file name
Serve(root, fname) ==
    IF fname \notin DOMAIN root
    THEN Response(404, NoData, NoMime, "", EmptyRef, "")
    ELSE Response(200, root[fname], MimeOrDefault(GuessType(fname)),
                  IF Inline(MimeOrDefault(GuessType(fname)))
                  THEN "inline" ELSE "attachment",
                  EmptyRef, fname)

\* lines 787-810
ServeUploadedFile(fname) ==
    /\ TakeInput
    /\ resp' = Serve(uploadRoot, fname)
    /\ UNCHANGED <<connections, queues, peerGone, inflight, wire, acked, backlog>>
    /\ UNCHANGED <<endpointVars, sendVars, rxVars, queuedVars, fileVars>>

\* ------------------------------------------------------------ ws_endpoint
\* a registry that keeps the handle it already holds
RegisterIfAbsent(s, h) ==
    connections' = IF s \in DOMAIN connections THEN connections
                   ELSE DictSet(connections, s, h)

\* line 816
Register(s, h) == connections' = DictSet(connections, s, h)

\* an endpoint that gives every connection a fresh queue
EnsureQueueFresh(s) == queues' = DictSet(queues, s, <<>>)

\* lines 817-818
EnsureQueue(s) ==
    queues' = IF s \notin DOMAIN queues THEN DictSet(queues, s, <<>>) ELSE queues

\* lines 814-831: the handles are taken in the order 1, 2, ...
Accept(s, h) ==
    /\ pc[h] = "new"
    /\ \A g \in Handles : g < h => pc[g] # "new"
    /\ TakeInput
    /\ Register(s, h)
    /\ EnsureQueue(s)
    /\ pc' = [pc EXCEPT ![h] = "recv"]
    /\ wsSession' = [wsSession EXCEPT ![h] = s]
    /\ drain' = [drain EXCEPT ![h] = "get"]
    /\ backlog' = [backlog EXCEPT ![h] = IF NoConnection(s) THEN Queued(s) ELSE <<>>]
    /\ UNCHANGED <<peerGone, drainItem, ackTo, pending, inflight, wire, acked>>
    /\ UNCHANGED <<sendVars, rxVars, queuedVars, httpVars, fileVars>>

\* a queue that hands out its newest item
QueueGetLast(q) == q[Len(q)]

\* asyncio.Queue.get, line 825: the item returned
QueueGet(q) == Head(q)

\* a get that leaves the item in the queue
QueueRestKeepsItem(q) == q

\* asyncio.Queue.get, line 825: the items left
QueueRest(q) == Tail(q)

\* lines 823-827: q.get() returns and send_text is called
DrainGet(h) ==
    /\ drain[h] = "get"
    /\ queues[wsSession[h]] # <<>>
    /\ drainItem' = [drainItem EXCEPT ![h] = QueueGet(queues[wsSession[h]])]
    /\ queues' = [queues EXCEPT ![wsSession[h]] = QueueRest(@)]
    /\ drain' = [drain EXCEPT ![h] = "send"]
    /\ StartWrite(h, <<"drain", h>>)
    /\ UNCHANGED <<connections, pc, wsSession, peerGone, ackTo, pending, wire,
                   acked, backlog>>
    /\ UNCHANGED <<sendVars, rxVars, queuedVars, httpVars, fileVars, nev>>

\* a drain task that puts the payload back when its write fails
DrainSendRequeues(h) ==
    /\ drain[h] = "send"
    /\ CanEnd(h, <<"drain", h>>)
    /\ EndWrite(h)
    /\ IF Writable(h)
       THEN /\ wire' = [wire EXCEPT ![h] = Append(@, Written(drainItem[h], "drain"))]
            /\ drain' = [drain EXCEPT ![h] = "get"]
            /\ queues' = queues
       ELSE /\ wire' = wire
            /\ drain' = [drain EXCEPT ![h] = "exited"]
            /\ queues' = [queues EXCEPT ![wsSession[h]] = Append(@, drainItem[h])]
    /\ drainItem' = [drainItem EXCEPT ![h] = NoItem]
    /\ UNCHANGED <<connections, pc, wsSession, peerGone, ackTo, pending,
                   acked, backlog>>
    /\ UNCHANGED <<sendVars, rxVars, queuedVars, httpVars, fileVars, nev>>

\* lines 826-829: send_text returns, or raises and the loop breaks
DrainSend(h) ==
    /\ drain[h] = "send"
    /\ CanEnd(h, <<"drain", h>>)
    /\ EndWrite(h)
    /\ IF Writable(h)
       THEN /\ wire' = [wire EXCEPT ![h] = Append(@, Written(drainItem[h], "drain"))]
            /\ drain' = [drain EXCEPT ![h] = "get"]
       ELSE /\ wire' = wire
            /\ drain' = [drain EXCEPT ![h] = "exited"]
    /\ drainItem' = [drainItem EXCEPT ![h] = NoItem]
    /\ UNCHANGED <<connections, queues, pc, wsSession, peerGone, ackTo, pending,
                   acked, backlog>>
    /\ UNCHANGED <<sendVars, rxVars, queuedVars, httpVars, fileVars, nev>>

\* the client closes, or the network fails
PeerGone(h) ==
    /\ pc[h] \in {"recv", "ack"}
    /\ ~peerGone[h]
    /\ peerGone' = [peerGone EXCEPT ![h] = TRUE]
    /\ UNCHANGED <<connections, queues, inflight, wire, acked, backlog>>
    /\ UNCHANGED <<endpointVars, sendVars, rxVars, queuedVars, httpVars, fileVars, nev>>

\* line 844
Unregister(s, h) == connections' = DictPop(connections, s)

\* a finally clause that also discards the session's queue
FinallyDropsQueue(h) ==
    /\ pc' = [pc EXCEPT ![h] = "closed"]
    /\ drain' = [drain EXCEPT ![h] = IF @ \in {"get", "send"} THEN "cancelled" ELSE @]
    /\ drainItem' = [drainItem EXCEPT ![h] = NoItem]
    /\ inflight' = [inflight EXCEPT ![h] = SelectSeq(@, LAMBDA w : w # <<"drain", h>>)]
    /\ wire' = wire
    /\ Unregister(wsSession[h], h)
    /\ queues' = DictSet(queues, wsSession[h], <<>>)
    /\ backlog' = [backlog EXCEPT ![h] = <<>>]

\* lines 842-844, the finally clause.  The write a cancelled drain task is in
\* the middle of either reached the client or did not.
Finally(h) ==
    /\ pc' = [pc EXCEPT ![h] = "closed"]
    /\ drain' = [drain EXCEPT ![h] = IF @ \in {"get", "send"} THEN "cancelled" ELSE @]
    /\ drainItem' = [drainItem EXCEPT ![h] = NoItem]
    /\ inflight' = [inflight EXCEPT ![h] = SelectSeq(@, LAMBDA w : w # <<"drain", h>>)]
    /\ \/ wire' = wire
       \/ /\ drain[h] = "send"
          /\ ~peerGone[h]
          /\ wire' = [wire EXCEPT ![h] = Append(@, Written(drainItem[h], "drain"))]
    /\ Unregister(wsSession[h], h)
    /\ queues' = queues
    /\ backlog' = [backlog EXCEPT ![h] = <<>>]

\* lines 835-844: receive_text raises
Teardown(h) ==
    /\ pc[h] = "recv"
    /\ peerGone[h]
    /\ Finally(h)
    /\ UNCHANGED <<wsSession, peerGone, ackTo, pending, acked>>
    /\ UNCHANGED <<sendVars, rxVars, queuedVars, httpVars, fileVars, nev>>

\* --------------------------------------------------------- _on_ws_message
\* a lookup that takes the handle of any registered session
AckTargetAnySession(s, h) ==
    IF DOMAIN connections = {} THEN NoConn
    ELSE connections[CHOOSE x \in DOMAIN connections :
                        \A y \in DOMAIN connections : x # s \/ y = s]

\* lines 865-866: the websocket the acknowledgement goes to, for a frame
\* received on h in session s
AckTarget(s, h) == DictGet(connections, s)

\* lines 872-886: the message handed to the bus
Normalized(s, f) ==
    [sender_id |-> s, chat_id |-> s, content |-> Content(f),
     media |-> MapInbound(Media(f))]

\* BaseChannel._handle_message: the message goes to the bus
HandleMessage(m) == bus' = Append(bus, m)

\* lines 835-836 and 848-886
OnWsMessage(h, f) ==
    /\ pc[h] = "recv"
    /\ ~peerGone[h]
    /\ TakeInput
    /\ lastRx' = f
    /\ IF Raises(f)
       THEN /\ Finally(h)
            /\ UNCHANGED <<ackTo, pending, bus>>
       ELSE IF Returns(f)
       THEN UNCHANGED <<connections, queues, pc, drain, drainItem, ackTo,
                        pending, inflight, wire, bus, backlog>>
       ELSE IF AckTarget(wsSession[h], h) # NoConn
       THEN /\ ackTo' = [ackTo EXCEPT ![h] = AckTarget(wsSession[h], h)]
            /\ pending' = [pending EXCEPT ![h] = f]
            /\ pc' = [pc EXCEPT ![h] = "ack"]
            /\ StartWrite(AckTarget(wsSession[h], h), <<"ack", h>>)
            /\ UNCHANGED <<connections, queues, drain, drainItem, wire, bus, backlog>>
       ELSE /\ HandleMessage(Normalized(wsSession[h], f))
            /\ UNCHANGED <<connections, queues, pc, drain, drainItem, ackTo,
                           pending, inflight, wire, backlog>>
    /\ UNCHANGED <<wsSession, peerGone, acked>>
    /\ UNCHANGED <<sendVars, queuedVars, httpVars, fileVars>>

\* a handler that lets the exception of the acknowledgement's send_text out:
\* it ends the receive loop
AckSendRaises(h) ==
    /\ pc[h] = "ack"
    /\ CanEnd(ackTo[h], <<"ack", h>>)
    /\ EndWrite(ackTo[h])
    /\ IF Writable(ackTo[h])
       THEN /\ acked' = [acked EXCEPT ![ackTo[h]] = @ + 1]
            /\ HandleMessage(Normalized(wsSession[h], pending[h]))
            /\ pc' = [pc EXCEPT ![h] = "recv"]
            /\ UNCHANGED <<connections, drain>>
       ELSE /\ pc' = [pc EXCEPT ![h] = "closed"]
            /\ drain' = [drain EXCEPT ![h] = "exited"]
            /\ Unregister(wsSession[h], h)
            /\ UNCHANGED <<acked, bus>>
    /\ ackTo' = [ackTo EXCEPT ![h] = NoConn]
    /\ pending' = [pending EXCEPT ![h] = NoFrame]
    /\ UNCHANGED <<queues, wsSession, peerGone, drainItem, wire, backlog,
                   lastRx, nev>>
    /\ UNCHANGED <<sendVars, queuedVars, httpVars, fileVars>>

\* lines 867-886: the acknowledgement's send_text returns or raises (the
\* exception is passed over), then the message goes to the bus
AckSend(h) ==
    /\ pc[h] = "ack"
    /\ CanEnd(ackTo[h], <<"ack", h>>)
    /\ EndWrite(ackTo[h])
    /\ acked' = IF Writable(ackTo[h])
                THEN [acked EXCEPT ![ackTo[h]] = @ + 1]
                ELSE acked
    /\ HandleMessage(Normalized(wsSession[h], pending[h]))
    /\ pc' = [pc EXCEPT ![h] = "recv"]
    /\ ackTo' = [ackTo EXCEPT ![h] = NoConn]
    /\ pending' = [pending EXCEPT ![h] = NoFrame]
    /\ UNCHANGED <<connections, queues, wsSession, peerGone, drain, drainItem,
                   wire, backlog, lastRx, nev>>
    /\ UNCHANGED <<sendVars, queuedVars, httpVars, fileVars>>

\* ------------------------------------------------------------------ send
\* a put at the head of the queue
EnqueueFront(s, p) == queues' = DictSet(queues, s, <<p>> \o Queued(s))

\* lines 965-967
Enqueue(s, p) == queues' = DictSet(queues, s, Append(Queued(s), p))

\* the connections of session s that have been torn down
ClosedOf(s) == {h \in Handles : wsSession[h] = s /\ pc[h] = "closed"}

\* item.startswith(("http://", "https://", "/uploads/")), line 935
PassPrefixes == {"http://", "https://", UploadsPrefix}
PassesThrough(item) == item.prefix \in PassPrefixes

\* src.exists() and src.is_file(), line 940
IsRegularFile(root, src) == PathKind(root, src) = "file"

\* a destination that keeps the directory of the source in the file's name
CopyDestWithDir(src) == src.dir \o src.name

\* dest = self._upload_dir / src.name, line 941: the name of the copy
CopyDest(src) == src.name

\* shutil.copy2(src, dest) with src and dest the same file (a source in the
\* upload directory): it raises SameFileError, line 942
SameFile(src) == src.dir = UploadDir

\* lines 931-947: the loop over msg.media, from the url list, the upload
\* directory and the copies made so far.  It ends with raised when copy2 raises.
RECURSIVE ResolveOutbound(_, _, _, _)
ResolveOutbound(media, urls, root, copies) ==
    IF media = <<>>
    THEN [urls |-> urls, root |-> root, copies |-> copies, raised |-> FALSE]
    ELSE IF Head(media) = EmptyRef
    THEN ResolveOutbound(Tail(media), urls, root, copies)
    ELSE IF PassesThrough(Head(media))
    THEN ResolveOutbound(Tail(media), Append(urls, Head(media)), root, copies)
    ELSE IF IsRegularFile(root, Head(media))
    THEN IF SameFile(Head(media))
         THEN [urls |-> urls, root |-> root, copies |-> copies, raised |-> TRUE]
         ELSE ResolveOutbound(
                  Tail(media),
                  Append(urls, ServedUrl(Head(media).name)),
                  WriteBytes(root, CopyDest(Head(media)),
                             FileBytes(root, Head(media))),
                  Append(copies, Head(media)))
    ELSE ResolveOutbound(Tail(media), urls, root, copies)

\* the copies of one send() call in the history of the writes, each under
\* the name of the URL that stands for it in the payload (line 944)
RECURSIVE StoredCopies(_, _)
StoredCopies(st, copies) ==
    IF copies = <<>> THEN st
    ELSE StoredCopies(Stored(st, Head(copies).name, "send", Head(copies)),
                      Tail(copies))

\* lines 923-961 and 965-967: the calls are numbered in the order they start
SendCall(k, s, m) ==
    /\ sendPc[k] = "idle"
    /\ \A j \in SendIds : j < k => sendPc[j] # "idle"
    /\ TakeInput
    /\ sendChat' = [sendChat EXCEPT ![k] = s]
    /\ sendMsgMedia' = [sendMsgMedia EXCEPT ![k] = m]
    /\ LET r == ResolveOutbound(m, <<>>, uploadRoot, <<>>) IN
         /\ uploadRoot' = r.root
         /\ stored' = StoredCopies(stored, r.copies)
         /\ sendMedia' = [sendMedia EXCEPT ![k] = r.urls]
         /\ IF r.raised
            THEN /\ sendPc' = [sendPc EXCEPT ![k] = "raised"]
                 /\ UNCHANGED <<sendWs, queues, inflight, enqClosed>>
            ELSE /\ sendWs' = [sendWs EXCEPT ![k] = DictGet(connections, s)]
                 /\ IF DictGet(connections, s) # NoConn
                    THEN /\ sendPc' = [sendPc EXCEPT ![k] = "write"]
                         /\ StartWrite(DictGet(connections, s), <<"send", k>>)
                         /\ UNCHANGED <<queues, enqClosed>>
                    ELSE /\ Enqueue(s, Payload(k, s, r.urls))
                         /\ enqClosed' = [enqClosed EXCEPT ![k] = ClosedOf(s)]
                         /\ sendPc' = [sendPc EXCEPT ![k] = "queued"]
                         /\ inflight' = inflight
    /\ UNCHANGED <<connections, peerGone, wire, acked, backlog>>
    /\ UNCHANGED <<endpointVars, rxVars, httpVars>>

\* line 963
SendPop(s, ws) == connections' = DictPop(connections, s)

\* lines 960-967: the direct send_text returns, or raises and the payload
\* is queued
SendWrite(k) ==
    /\ sendPc[k] = "write"
    /\ CanEnd(sendWs[k], <<"send", k>>)
    /\ EndWrite(sendWs[k])
    /\ IF Writable(sendWs[k])
       THEN /\ wire' = [wire EXCEPT ![sendWs[k]] =
                           Append(@, Written(Payload(k, sendChat[k], sendMedia[k]), "direct"))]
            /\ sendPc' = [sendPc EXCEPT ![k] = "sent"]
            /\ UNCHANGED <<connections, queues, enqClosed>>
       ELSE /\ SendPop(sendChat[k], sendWs[k])
            /\ Enqueue(sendChat[k], Payload(k, sendChat[k], sendMedia[k]))
            /\ enqClosed' = [enqClosed EXCEPT ![k] = ClosedOf(sendChat[k])]
            /\ sendPc' = [sendPc EXCEPT ![k] = "fellback"]
            /\ wire' = wire
    /\ UNCHANGED <<peerGone, acked, backlog, sendWs, sendChat, sendMsgMedia, sendMedia>>
    /\ UNCHANGED <<endpointVars, rxVars, httpVars, fileVars, nev>>

\* ------------------------------------------------------------------- spec
\* the inputs: msg.media of a send() call
NoMedia == <<>>
OutMedia ==
    { NoMedia,
      <<HttpUrl, LocalA, UploadsUrl>>,
      <<LocalPdf, MissingPath, PlainHttpUrl>>,
      <<EmptyRef, DirPath, LocalB>>,
      <<LocalA, LocalB>>,
      <<InUploadDir>>,
      <<MissingPath, InUploadDir>> }

\* the send() calls of the runs with files: every media list for one session,
\* and for the other sessions the local files of one name
FileSends ==
    {sm \in Sessions \X OutMedia : sm[1] = "s1" \/ sm[2] = <<LocalA, LocalB>>}

\* the file names and the bodies of the HTTP requests
FileNames == {"photo.png", "archive.zip", "page.html", "doc.pdf", "notes.txt", "blob"}
UploadNames == {"photo.png", "archive.zip", "page.html", "blob"}
Bodies == {Data("x", 1), Data("y", MaxBytes), Data("z", MaxBytes + 1)}

Next ==
    \/ \E s \in Sessions, h \in Handles : Accept(s, h)
    \/ \E h \in Handles : DrainGet(h)
    \/ \E h \in Handles : DrainSend(h)
    \/ \E h \in Handles : PeerGone(h)
    \/ \E h \in Handles : Teardown(h)
    \/ \E h \in Handles, f \in Frames : OnWsMessage(h, f)
    \/ \E h \in Handles : AckSend(h)
    \/ \E k \in SendIds, s \in Sessions : SendCall(k, s, NoMedia)
    \/ \E k \in SendIds : SendWrite(k)

Spec == Init /\ [][Next]_vars

\* The HTTP endpoints and send() with media, for sessions with no connection:
\* the messages are queued.
FileNext ==
    \/ \E fname \in UploadNames, data \in Bodies : Upload(fname, data)
    \/ \E fname \in FileNames : ServeUploadedFile(fname)
    \/ \E k \in SendIds, sm \in FileSends : SendCall(k, sm[1], sm[2])

FileSpec == Init /\ [][FileNext]_vars

\* ----------------------------------------------------------------- claims
\* the ws_endpoint call of handle h ends in this step (lines 842-844)
TornDown(h) == pc[h] \in {"recv", "ack"} /\ pc'[h] = "closed"

\* the ws_endpoint call of handle h starts in this step (lines 814-831)
Accepted(h) == pc[h] = "new" /\ pc'[h] # "new"

\* C1: when a connection is torn down while the registry entry of its session
\* holds another handle (a newer connection), the registry is left as it is:
\* an entry is removed only by the disconnect of the handle it holds.
C1_StaleTeardownKeepsNewer ==
    [][\A h \in Handles :
          (TornDown(h) /\ DictGet(connections, wsSession[h]) # h)
              => connections' = connections]_vars

\* C2: every registry entry holds one handle, a connection accepted for that
\* session, and accepting a connection for a session installs its handle
\* whatever the registry held for the session, leaving the other entries alone.
RegistryOK ==
    /\ DOMAIN connections \subseteq Sessions
    /\ \A s \in DOMAIN connections :
          connections[s] \in Handles /\ wsSession[connections[s]] = s

C2_AcceptReplaces ==
    /\ []RegistryOK
    /\ [][\A h \in Handles :
             Accepted(h) =>
                 /\ DictGet(connections', wsSession'[h]) = h
                 /\ \A s \in Sessions \ {wsSession'[h]} :
                       DictGet(connections', s) = DictGet(connections, s)]_vars

\* a second connection of a session is registered while the first is still open
C2_Witness ==
    \E g, h \in Handles :
        /\ g < h
        /\ wsSession[g] = wsSession[h]
        /\ pc[g] = "recv"
        /\ pc[h] = "recv"
        /\ DictGet(connections, wsSession[h]) = h

\* the payloads in a sequence of written frames
RECURSIVE Payloads(_)
Payloads(w) == IF w = <<>> THEN <<>> ELSE <<Head(w).payload>> \o Payloads(Tail(w))

\* the payloads written to handle h, and those its drain task wrote
WrittenTo(h) == Payloads(wire[h])
DrainWritten(h) == Payloads(SelectSeq(wire[h], LAMBDA w : w.via = "drain"))

\* the payload the drain task of h is writing
DrainInFlight(h) == IF drain[h] = "send" THEN <<drainItem[h]>> ELSE <<>>

InSeq(x, seq) == \E i \in 1..Len(seq) : seq[i] = x
IsPrefix(a, b) == Len(a) <= Len(b) /\ SubSeq(b, 1, Len(a)) = a
Ascending(seq) == \A i, j \in 1..Len(seq) : i < j => seq[i].id < seq[j].id

\* C3: what has been written to a connection is in the order of the send()
\* calls, and no payload has been written to a connection while a payload
\* of an earlier send() call for the session still waits in its queue.
C3_WritesInSendOrder ==
    \A h \in Handles :
        /\ Ascending(WrittenTo(h))
        /\ \A i \in 1..Len(wire[h]) :
              \A j \in 1..Len(Queued(wsSession[h])) :
                  wire[h][i].payload.id < Queued(wsSession[h])[j].id

\* C4: a connection h accepted while its session had no connection, that is
\* still open with a transport that takes every write, and after which no
\* other connection of the session was accepted: its drain task is alive,
\* and the queue h found is a prefix of (what the drain task has written to
\* h, then the payload it is writing, then the queue): written in order,
\* none skipped, none repeated.
C4Case(h) ==
    /\ backlog[h] # <<>>
    /\ pc[h] \in {"recv", "ack"}
    /\ ~peerGone[h]
    /\ \A g \in Handles : g > h => wsSession[g] # wsSession[h]

Held(k) ==
    \/ sendPc[k] = "write"
    \/ InSeq(Payload(k, sendChat[k], sendMedia[k]), Queued(sendChat[k]))
    \/ \E h \in Handles :
          /\ wsSession[h] = sendChat[k]
          /\ \/ DrainInFlight(h) = <<Payload(k, sendChat[k], sendMedia[k])>>
             \/ InSeq(Payload(k, sendChat[k], sendMedia[k]), WrittenTo(h))

C5_NoPayloadDropped == \A k \in SendIds : sendPc[k] # "idle" => Held(k)

\* C6: the step that tears a connection down leaves every queue as it is.
C6_TeardownKeepsQueue ==
    [][\A h \in Handles : TornDown(h) => queues' = queues]_vars

\* a connection is closed, and the queue of its session holds a payload that
\* was there at the teardown: one sent before a payload written to it
C6_Witness ==
    \E h \in Handles :
        /\ pc[h] = "closed"
        /\ drain[h] = "cancelled"
        /\ \E i \in 1..Len(wire[h]) : \E j \in 1..Len(Queued(wsSession[h])) :
              Queued(wsSession[h])[j].id < wire[h][i].payload.id

\* C7: a payload queued after its direct write failed on connection ws
\* waits in the queue, or is being written by the drain task of another
\* connection, or has been written: the drain task of ws never takes it.
C7_FallbackNotLost ==
    \A k \in SendIds :
        sendPc[k] = "fellback" =>
            \/ InSeq(Payload(k, sendChat[k], sendMedia[k]), Queued(sendChat[k]))
            \/ \E h \in Handles :
                  /\ wsSession[h] = sendChat[k]
                  /\ \/ InSeq(Payload(k, sendChat[k], sendMedia[k]), WrittenTo(h))
                     \/ /\ DrainInFlight(h) = <<Payload(k, sendChat[k], sendMedia[k])>>
                        /\ h # sendWs[k]

\* C8: a frame that is a protocol violation (not JSON, not an object, no
\* type, no content, a type other than "message") hands nothing to the bus
\* and leaves the connection open, registered as before, with its receive
\* loop waiting for the next frame and its drain task as it was.
ProtocolViolation(f) ==
    \/ f.json \in {"invalid", "nonobject"}
    \/ f.json = "object" /\ (f.type = Absent \/ f.content = Absent)
    \/ f.json = "object" /\ f.type # Absent /\ f.type # Str("message")

C8_ViolationDiscarded ==
    [][\A h \in Handles : \A f \in Frames :
          (ProtocolViolation(f) /\ OnWsMessage(h, f)) =>
              /\ bus' = bus
              /\ pc'[h] = "recv"
              /\ pending'[h] = NoFrame
              /\ connections' = connections
              /\ drain'[h] = drain[h]]_vars

\* C9: a frame whose declared type is not "message" changes nothing: no
\* message to the bus, no write started or ended on any connection, the
\* registry, the queues and every task where they were.
OtherType(f) == f.json = "object" /\ f.type # Absent /\ f.type # Str("message")

C9_OtherTypeIgnored ==
    [][\A h \in Handles : \A f \in Frames :
          (OtherType(f) /\ OnWsMessage(h, f)) =>
              UNCHANGED <<connections, queues, endpointVars, inflight, wire,
                          acked, bus>>]_vars

\* a frame of type "ping" was the last one received, on a registered
\* connection, and nothing has gone to the bus
C9_Witness ==
    /\ OtherType(lastRx)
    /\ bus = <<>>
    /\ \E h \in Handles : pc[h] = "recv" /\ DictGet(connections, wsSession[h]) = h

\* C10: for a valid message frame received on h the acknowledgement is
\* written to h itself.
ValidMessage(f) == ~Returns(f) /\ ~Raises(f)

C10_AckOnReceivingConnection ==
    [][\A h \in Handles : \A f \in Frames :
          (ValidMessage(f) /\ OnWsMessage(h, f)) =>
              (pc'[h] = "ack" /\ ackTo'[h] = h)]_vars

\* C11: when the write of the acknowledgement fails, the handler goes on: the
\* frame is normalized and handed to the bus once, nothing is written to any
\* connection, the connection stays open with its receive loop waiting for
\* the next frame and its drain task as it was, the registry and the queues
\* are unchanged.
AckFails(h) == pc[h] = "ack" /\ pc'[h] # "ack" /\ ~Writable(ackTo[h])

C11_AckFailureSwallowed ==
    [][\A h \in Handles :
          AckFails(h) =>
              /\ bus' = Append(bus, Normalized(wsSession[h], pending[h]))
              /\ pc'[h] = "recv"
              /\ drain'[h] = drain[h]
              /\ UNCHANGED <<connections, queues, wire, acked>>]_vars

\* the only connection so far is registered, its transport has ended, no
\* acknowledgement has been written to it, and a message with its two media
\* references has gone to the bus: the write of its acknowledgement failed
C11_Witness ==
    /\ pc[1] = "recv"
    /\ pc[2] = "new"
    /\ peerGone[1]
    /\ DictGet(connections, wsSession[1]) = 1
    /\ acked[1] = 0
    /\ Len(bus) = 1
    /\ Len(bus[1].media) = 2

\* ------------------------------------------------- claims about the files
\* C12: an upload is answered with the oversize error (413) exactly when its
\* body is longer than the limit, a body of exactly the limit is accepted,
\* and a rejected upload leaves the upload directory as it was.
C12_OversizeRejected ==
    [][\A fname \in UploadNames : \A data \in Bodies :
          Upload(fname, data) =>
              /\ (resp'.status = 413) <=> (data.len > MaxBytes)
              /\ (data.len = MaxBytes) => (resp'.status = 200)
              /\ (resp'.status = 413) => (uploadRoot' = uploadRoot)]_vars

\* an upload has just been rejected, and the upload directory holds a file
\* of exactly the limit
C12_Witness ==
    /\ resp.status = 413
    /\ \E n \in DOMAIN uploadRoot : uploadRoot[n].len = MaxBytes

\* the last write answered with /uploads/n
LastStored(n) == stored[n][Len(stored[n])]

\* a download of n returns these bytes
Downloads(n, bytes) ==
    Serve(uploadRoot, n).status = 200 /\ Serve(uploadRoot, n).body = bytes

\* C13 as stated: every local file send() ever bridged to /uploads/n is what
\* a download of n returns, whatever was uploaded or bridged since.
C13_BridgedServedForever ==
    \A n \in DOMAIN stored : \A i \in 1..Len(stored[n]) :
        stored[n][i].by = "send" => Downloads(n, LocalBytes(stored[n][i].src))

\* C13 as amended: a download of n returns the bytes of the local file
\* send() bridged to /uploads/n, as long as no later upload or bridging was
\* answered with /uploads/n.
C13_BridgedServedUntilReplaced ==
    \A n \in DOMAIN stored :
        LastStored(n).by = "send" => Downloads(n, LocalBytes(LastStored(n).src))

\* a local file was bridged over an uploaded file of its name, and another
\* file is in the upload directory
C13_Witness ==
    \E n \in DOMAIN stored :
        /\ Len(stored[n]) >= 2
        /\ stored[n][1].by = "upload"
        /\ LastStored(n).by = "send"
        /\ DOMAIN uploadRoot # {n}

\* the k-th call of send() starts in this step
Sends(k) == sendPc[k] = "idle" /\ sendPc'[k] # "idle"

\* a reference that is a local path: not empty, none of the URL forms
LocalPath(ref) ==
    ref # EmptyRef /\ ref.prefix \notin {"http://", "https://", "/uploads/"}

\* what the media list of the payload is to be, for msg.media and the upload
\* directory of the call: URLs as they are, a regular local file as
\* /uploads/<its name>, anything else left out
RECURSIVE ExpectedUrls(_, _)
ExpectedUrls(media, root) ==
    IF media = <<>> THEN <<>>
    ELSE (IF ~LocalPath(Head(media))
          THEN (IF Head(media) = EmptyRef THEN <<>> ELSE <<Head(media)>>)
          ELSE IF PathKind(root, Head(media)) = "file"
          THEN <<[prefix |-> "/uploads/", dir |-> "", name |-> Head(media).name]>>
          ELSE <<>>)
         \o ExpectedUrls(Tail(media), root)

\* the message of call k is produced: its payload, with the media list
\* media_urls, is being written or is queued
Produced(k) ==
    \/ sendPc'[k] = "write"
    \/ /\ sendPc'[k] = "queued"
       /\ InSeq(Payload(k, sendChat'[k], sendMedia'[k]),
                IF sendChat'[k] \in DOMAIN queues' THEN queues'[sendChat'[k]] ELSE <<>>)

\* no write of this step is a copy of src
NotCopied(src) ==
    \A n \in DOMAIN stored' :
        \A i \in 1..Len(stored'[n]) :
            (n \in DOMAIN stored => i > Len(stored[n])) => stored'[n][i].src # src

\* C14: a send() whose msg.media names a local path that is no regular file
\* still produces its message, with the other references in their order, and
\* copies nothing for that path.
HasNoFile(media, root) ==
    \E i \in 1..Len(media) :
        LocalPath(media[i]) /\ PathKind(root, media[i]) # "file"

C14_MissingMediaOmitted ==
    [][\A k \in SendIds :
          (Sends(k) /\ HasNoFile(sendMsgMedia'[k], uploadRoot)) =>
              /\ Produced(k)
              /\ sendMedia'[k] = ExpectedUrls(sendMsgMedia'[k], uploadRoot)
              /\ \A i \in 1..Len(sendMsgMedia'[k]) :
                    (LocalPath(sendMsgMedia'[k][i])
                       /\ PathKind(uploadRoot, sendMsgMedia'[k][i]) # "file")
                    => NotCopied(sendMsgMedia'[k][i])]_vars

\* C15: send() maps every reference of msg.media in order: a URL stays as it
\* is and nothing is written for it, a regular local file is copied to the
\* upload directory under its name and becomes /uploads/<its name>.
C15_OutboundResolution ==
    [][\A k \in SendIds :
          Sends(k) =>
              /\ Produced(k)
              /\ sendMedia'[k] = ExpectedUrls(sendMsgMedia'[k], uploadRoot)
              /\ \A i \in 1..Len(sendMsgMedia'[k]) :
                    LET ref == sendMsgMedia'[k][i] IN
                      /\ ~LocalPath(ref) => NotCopied(ref)
                      /\ (LocalPath(ref) /\ PathKind(uploadRoot, ref) = "file")
                           => ref.name \in DOMAIN uploadRoot'
              /\ \A n \in DOMAIN uploadRoot' :
                    \/ n \in DOMAIN uploadRoot /\ uploadRoot'[n] = uploadRoot[n]
                    \/ \E i \in 1..Len(sendMsgMedia'[k]) :
                          /\ LocalPath(sendMsgMedia'[k][i])
                          /\ PathKind(uploadRoot, sendMsgMedia'[k][i]) = "file"
                          /\ sendMsgMedia'[k][i].name = n
                          /\ uploadRoot'[n] = FileBytes(uploadRoot, sendMsgMedia'[k][i])]_vars

\* C16: the media list handed to the bus has the length and the order of the
\* frame's list; an entry that starts with /uploads/ has become the upload
\* directory joined with what follows the prefix, any other entry is as it
\* came.
Forwarded(h, f) ==
    \/ pc[h] = "ack" /\ pc'[h] = "recv" /\ pending[h] = f
    \/ OnWsMessage(h, f) /\ bus' # bus

FrameMedia(f) == IF f.media.kind = "list" THEN f.media.val ELSE <<>>

C16_InboundResolution ==
    [][\A h \in Handles : \A f \in Frames :
          Forwarded(h, f) =>
              /\ Len(bus') = Len(bus) + 1
              /\ Len(bus'[Len(bus')].media) = Len(FrameMedia(f))
              /\ \A i \in 1..Len(FrameMedia(f)) :
                    IF FrameMedia(f)[i].prefix = "/uploads/"
                    THEN bus'[Len(bus')].media[i] =
                             [prefix |-> "", dir |-> UploadDir,
                              name |-> FrameMedia(f)[i].dir \o FrameMedia(f)[i].name]
                    ELSE bus'[Len(bus')].media[i] = FrameMedia(f)[i]]_vars

\* a message went to the bus with /uploads/a.png resolved and the https URL
\* as it came, in the order of the frame
C16_Witness ==
    \E i \in 1..Len(bus) :
        bus[i].media =
            <<[prefix |-> "", dir |-> UploadDir, name |-> "a.png"], HttpUrl>>

\* C17: an accepted upload of name N leaves the uploaded bytes under N,
\* whatever was stored under N, leaves every other file as it was, and is
\* answered with the URL /uploads/N and the name N.
C17_UploadOverwrites ==
    [][\A fname \in UploadNames : \A data \in Bodies :
          (Upload(fname, data) /\ resp'.status = 200) =>
              /\ DOMAIN uploadRoot' = DOMAIN uploadRoot \cup {fname}
              /\ uploadRoot'[fname] = data
              /\ \A n \in DOMAIN uploadRoot \ {fname} : uploadRoot'[n] = uploadRoot[n]
              /\ resp'.url = [prefix |-> "/uploads/", dir |-> "", name |-> fname]
              /\ resp'.name = fname]_vars

\* an upload has replaced a file that send() had copied there, with other
\* bytes, next to another file
C17_Witness ==
    \E n \in DOMAIN stored :
        /\ Len(stored[n]) >= 2
        /\ stored[n][1].by = "send"
        /\ LastStored(n).by = "upload"
        /\ uploadRoot[n] # LocalBytes(stored[n][1].src)
        /\ resp.status = 200 /\ resp.name = n
        /\ DOMAIN uploadRoot # {n}

\* C18: a download of a name that is not in the upload directory is answered
\* with 404; otherwise with the file, inline exactly when the type of its
\* extension (application/octet-stream when it has none) is image/*, video/*,
\* audio/*, text/html or application/pdf, and as an attachment otherwise.
Renderable(mime) ==
    \/ mime.prefix \in {"image/", "video/", "audio/"}
    \/ mime = Mime("text/", "html")
    \/ mime = Mime("application/", "pdf")

C18_DownloadDisposition ==
    [][\A fname \in FileNames :
          ServeUploadedFile(fname) =>
              IF fname \notin DOMAIN uploadRoot
              THEN resp'.status = 404
              ELSE /\ resp'.status = 200
                   /\ resp'.body = uploadRoot[fname]
                   /\ resp'.disposition \in {"inline", "attachment"}
                   /\ (resp'.disposition = "inline")
                        <=> Renderable(MimeOrDefault(GuessType(fname)))
                   /\ fname = "photo.png" => resp'.disposition = "inline"
                   /\ fname = "archive.zip" => resp'.disposition = "attachment"
                   /\ fname = "blob" => resp'.mime = Mime("application/", "octet-stream")]_vars

\* archive.zip was downloaded as an attachment while photo.png was there
C18_Witness ==
    /\ resp.status = 200
    /\ resp.name = "archive.zip"
    /\ resp.disposition = "attachment"
    /\ "photo.png" \in DOMAIN uploadRoot

\* --------------------------------------- claims about the connection tasks
\* C19: the handle registered for a session has its receive loop running
\* and its drain task alive.
C19_RegisteredHasLiveDrain ==
    \A s \in DOMAIN connections :
        /\ pc[connections[s]] \in {"recv", "ack"}
        /\ drain[connections[s]] \in {"get", "send"}

\* C20: a drain task that takes a payload from the queue of its session and
\* writes it to its connection does so on the connection registered for the
\* session.
DrainWrites(h) == drain[h] = "get" /\ drain'[h] = "send"

C20_DrainWritesToRegistered ==
    [][\A h \in Handles :
          DrainWrites(h) => DictGet(connections, wsSession[h]) = h]_vars

\* C21: when the write of a drain task fails, the task ends, its payload goes
\* nowhere (not back to the queue, not to the client), and the queue is left
\* as it was: what was behind the payload stays queued in its order.
DrainWriteFails(h) == drain[h] = "send" /\ drain'[h] = "exited"

C21_DrainFailureKeepsQueue ==
    /\ [][\A h \in Handles :
             DrainWriteFails(h) =>
                 /\ queues' = queues
                 /\ wire' = wire
                 /\ drainItem'[h] = NoItem
                 /\ ~InSeq(drainItem[h], Queued(wsSession[h]))]_vars
    /\ [][\A h \in Handles :
             (drain[h] = "exited") => (drain'[h] = "exited" /\ drainItem'[h] = NoItem)]_vars

\* the drain task of the only connection of a session has ended on a failed
\* write: a queued payload is nowhere any more, and a payload that was behind
\* it is still in the queue
C21_Witness ==
    \E h \in Handles :
        /\ drain[h] = "exited"
        /\ pc[h] = "recv"
        /\ DictGet(connections, wsSession[h]) = h
        /\ \A g \in Handles \ {h} : wsSession[g] # wsSession[h]
        /\ \E j, k \in SendIds :
              /\ j < k
              /\ sendPc[j] = "queued" /\ sendChat[j] = wsSession[h] /\ ~Held(j)
              /\ sendPc[k] = "queued" /\ sendChat[k] = wsSession[h]
              /\ Queued(wsSession[h]) = <<Payload(k, sendChat[k], sendMedia[k])>>

\* C22: the drain task of a connection that has been torn down is over and
\* holds no payload, and a payload that was queued after the teardown of a
\* connection is taken from the queue only by the drain task of a connection
\* accepted later than that one.
DrainOverWhenClosed ==
    \A h \in Handles :
        pc[h] = "closed" =>
            drain[h] \in {"cancelled", "exited"} /\ drainItem[h] = NoItem

TakenByLaterOnly ==
    \A g \in Handles :
        DrainWrites(g) =>
            \A h \in enqClosed[QueueGet(queues[wsSession[g]]).id] : g > h

C22_TornDownDrainTakesNothing ==
    /\ []DrainOverWhenClosed
    /\ [][TakenByLaterOnly]_vars

\* C23: a session's queue comes into being when a connection of the session
\* is accepted or a payload is queued for it, whichever is first; from then
\* on it stays, and changes only by a payload added at its tail or taken from
\* its head.  Accepting a connection leaves the queue of its session with
\* the payloads it had, in their order.
QueueStep(old, new) ==
    \/ new = old
    \/ Len(new) = Len(old) + 1 /\ SubSeq(new, 1, Len(old)) = old
    \/ old # <<>> /\ new = Tail(old)

C23_QueueKeptForSession ==
    [][/\ \A s \in DOMAIN queues :
             s \in DOMAIN queues' /\ QueueStep(queues[s], queues'[s])
       /\ \A s \in DOMAIN queues' \ DOMAIN queues :
             \/ \E h \in Handles : Accepted(h) /\ wsSession'[h] = s /\ queues'[s] = <<>>
             \/ \E k \in SendIds :
                   /\ sendPc'[k] \in {"queued", "fellback"} /\ sendPc'[k] # sendPc[k]
                   /\ sendChat'[k] = s
                   /\ queues'[s] = <<Payload(k, s, sendMedia'[k])>>
       /\ \A h \in Handles :
             Accepted(h) =>
                 /\ wsSession'[h] \in DOMAIN queues'
                 /\ queues'[wsSession'[h]] = Queued(wsSession'[h])]_vars

\* a session reconnected (its earlier connection torn down, the new one
\* registered with a working transport and its drain task not yet run) and
\* found two payloads in the queue
C23_Witness ==
    \E g, h \in Handles :
        /\ g < h
        /\ wsSession[g] = wsSession[h]
        /\ pc[g] = "closed"
        /\ pc[h] = "recv" /\ ~peerGone[h] /\ drain[h] = "get"
        /\ wire[h] = <<>>
        /\ DictGet(connections, wsSession[h]) = h
        /\ Len(Queued(wsSession[h])) = 2

\* C24: a send() call that comes to its delivery step (line 956) for a
\* session with no registered handle ends normally with its payload added at
\* the tail of the session's queue, the queue created if there was none; the
\* registry, the payloads already in that queue and the queues of the other
\* sessions are as before.
SendsUnregistered(k) ==
    /\ Sends(k)
    /\ sendPc'[k] # "raised"
    /\ DictGet(connections, sendChat'[k]) = NoConn

C25_AckBeforeHandOff ==
    [][\A h \in Handles : \A f \in Frames :
          Forwarded(h, f) =>
              /\ pc[h] = "ack"
              /\ ackTo[h] # NoConn
              /\ bus'[Len(bus')].sender_id = wsSession[h]
              /\ bus'[Len(bus')].chat_id = wsSession[h]]_vars

\* the message handed over carries the session id of its connection
SessionIdHandedOver ==
    [][\A h \in Handles : \A f \in Frames :
          Forwarded(h, f) =>
              /\ bus'[Len(bus')].sender_id = wsSession[h]
              /\ bus'[Len(bus')].chat_id = wsSession[h]]_vars

\* C26: a direct write of send() that fails takes out of the registry only
\* the handle it was written to: a newer handle registered for the session
\* while the write was pending is still registered after the fallback.
DirectWriteFails(k) == sendPc[k] = "write" /\ sendPc'[k] = "fellback"

C26_FallbackKeepsNewerHandle ==
    [][\A k \in SendIds :
          (DirectWriteFails(k) /\ DictGet(connections, sendChat[k]) # sendWs[k])
              => connections' = connections]_vars

\* C27: session isolation.  A payload of a send() call for chat id A is
\* written only to connections accepted for session A and queued only in
\* A's queue, whether it is on the wire, in a queue, held by a drain task or
\* in a write that has not ended; and the acknowledgement of a frame
\* received in session A is written only to a connection of session A.
OfSession(p, s) == p.chat = s /\ sendChat[p.id] = s

PayloadsStayInSession ==
    /\ \A h \in Handles : \A i \in DOMAIN wire[h] :
           OfSession(wire[h][i].payload, wsSession[h])
    /\ \A s \in DOMAIN queues : \A i \in DOMAIN queues[s] :
           OfSession(queues[s][i], s)
    /\ \A h \in Handles :
           drainItem[h] # NoItem => OfSession(drainItem[h], wsSession[h])
    /\ \A h \in Handles : \A i \in DOMAIN inflight[h] :
           LET w == inflight[h][i] IN
             /\ w[1] = "send" => sendChat[w[2]] = wsSession[h]
             /\ w[1] = "drain" => w[2] = h
             /\ w[1] = "ack" => wsSession[w[2]] = wsSession[h]

AcksStayInSession ==
    \A t \in Handles :
        acked'[t] # acked[t] =>
            \E h \in Handles :
                /\ pc[h] = "ack" /\ pc'[h] = "recv"
                /\ ackTo[h] = t
                /\ wsSession[h] = wsSession[t]

C27_SessionIsolation ==
    /\ []PayloadsStayInSession
    /\ [][AcksStayInSession]_vars

\* connections of two sessions are open: a payload has been written to the
\* one, an acknowledgement to the other
C27_Witness ==
    \E g, h \in Handles :
        /\ pc[g] = "recv" /\ pc[h] = "recv"
        /\ wsSession[g] # wsSession[h]
        /\ wire[g] # <<>>
        /\ acked[h] > 0

\* C28: no payload is written successfully more than once: over all
\* connections, by send() itself and by the drain tasks together, the
\* payload of one send() call is on the wire at most once, and a payload on
\* the wire is neither in a queue nor held by a writer any more.
OnWire(k, h, i) == i \in DOMAIN wire[h] /\ wire[h][i].payload.id = k

Waiting(k) ==
    \/ sendPc[k] = "write"
    \/ \E h \in Handles : drainItem[h] # NoItem /\ drainItem[h].id = k
    \/ \E s \in DOMAIN queues : \E i \in DOMAIN queues[s] : queues[s][i].id = k

C28_WrittenAtMostOnce ==
    \A h \in Handles : \A i \in DOMAIN wire[h] :
        LET k == wire[h][i].payload.id IN
          /\ \A g \in Handles : \A j \in DOMAIN wire[g] :
                 OnWire(k, g, j) => g = h /\ j = i
          /\ ~Waiting(k)

\* a direct write failed and the payload fell back to the queue while two
\* connections of the session were open with their drain tasks; the drain
\* task of the other connection has written it, once
C28_Witness ==
    \E k \in SendIds : \E h \in Handles :
        /\ sendPc[k] = "fellback"
        /\ h # sendWs[k]
        /\ wsSession[h] = sendChat[k]
        /\ pc[sendWs[k]] # "closed" /\ drain[sendWs[k]] = "get"
        /\ wire[h] = <<Written(Payload(k, sendChat[k], sendMedia[k]), "drain")>>
        /\ wire[sendWs[k]] = <<>>

====
